---- MODULE Spec2Model ----
(***************************************************************************)
(* Model of the shift-roster pipeline of latelatte/shiftte:                *)
(*   read_pdf_table -> normalize_table -> extract_person_row ->            *)
(*   load_code_map -> to_events      (app/services, driven by api_upload)  *)
(*                                                                         *)
(* Text is modelled as a sequence of characters.  A character is a one     *)
(* character TLA+ string for ASCII; a non-ASCII character is written as    *)
(* an ASCII token:                                                         *)
(*   "FWSP" U+3000 full-width space                                        *)
(*   "SU" "TA" "TSU" "FU"        the kana of the canonical name label        *)
(*   "MEI" "MAE" "SHI" "JUU" "GYOU" "IN"   the kanji of the name keywords  *)
(*   "GETSU" "KA" "SUI" "MOKU" "KIN" "DO" "NICHI"   the 7 weekday glyphs   *)
(*   "YAMA" "DA" "TARO"          kanji used in person names                *)
(* A missing value (NaN / None) is modelled by the text its str() gives,   *)
(* "nan" / "None": every cell the code reads goes through str() or         *)
(* astype(str) first.                                                      *)
(***************************************************************************)
EXTENDS Integers, Sequences, FiniteSets, TLC

(***************************************************************************)
(*                               TEXT                                      *)
(***************************************************************************)

\* Unicode code point of a character (Python compares str by code point).
Ord(c) ==
  CASE c = "\t" -> 9 [] c = "\n" -> 10 [] c = " " -> 32
    [] c = "(" -> 40 [] c = ")" -> 41 [] c = "+" -> 43 [] c = "-" -> 45
    [] c = "." -> 46 [] c = "/" -> 47
    [] c = "0" -> 48 [] c = "1" -> 49 [] c = "2" -> 50 [] c = "3" -> 51
    [] c = "4" -> 52 [] c = "5" -> 53 [] c = "6" -> 54 [] c = "7" -> 55
    [] c = "8" -> 56 [] c = "9" -> 57 [] c = ":" -> 58
    [] c = "A" -> 65 [] c = "B" -> 66 [] c = "C" -> 67 [] c = "N" -> 78
    [] c = "X" -> 88 [] c = "Z" -> 90 [] c = "_" -> 95
    [] c = "a" -> 97 [] c = "b" -> 98 [] c = "c" -> 99 [] c = "e" -> 101
    [] c = "l" -> 108 [] c = "m" -> 109 [] c = "n" -> 110 [] c = "o" -> 111
    [] c = "FWSP" -> 12288
    [] c = "SU" -> 12473 [] c = "TA" -> 12479 [] c = "TSU" -> 12483
    [] c = "FU" -> 12501
    [] c = "MAE" -> 21069 [] c = "MEI" -> 21517 [] c = "IN" -> 21729
    [] c = "DO" -> 22303 [] c = "TARO" -> 22826 [] c = "YAMA" -> 23665
    [] c = "JUU" -> 24467 [] c = "NICHI" -> 26085 [] c = "GETSU" -> 26376
    [] c = "MOKU" -> 26408 [] c = "GYOU" -> 26989 [] c = "SHI" -> 27663
    [] c = "SUI" -> 27700 [] c = "KA" -> 28779 [] c = "DA" -> 30000
    [] c = "KIN" -> 37329
    [] OTHER -> 0

\* The characters str.strip() and the regex class \s remove.
IsSpace(c) == c \in {" ", "\t", "\n", "FWSP"}

IsDigit(c) == c \in {"0", "1", "2", "3", "4", "5", "6", "7", "8", "9"}

DigitVal(c) == Ord(c) - 48

RECURSIVE LStrip(_)
LStrip(s) ==
  IF s = <<>> THEN <<>>
  ELSE IF IsSpace(Head(s)) THEN LStrip(Tail(s)) ELSE s

RECURSIVE RStrip(_)
RStrip(s) ==
  IF s = <<>> THEN <<>>
  ELSE IF IsSpace(s[Len(s)]) THEN RStrip(SubSeq(s, 1, Len(s) - 1)) ELSE s

\* str.strip()
Strip(s) == RStrip(LStrip(s))

\* str.replace(ch, ""): every occurrence of the character removed
RemoveChar(s, ch) == SelectSeq(s, LAMBDA c : c # ch)

AllDigits(s) == \A i \in 1..Len(s) : IsDigit(s[i])

\* \d{1,2}
Digits12(s) == Len(s) \in {1, 2} /\ AllDigits(s)

\* MD_RE = ^\s*(\d{1,2})/(\d{1,2})\s*$  matched against str(s)
_looks_like_md(s) ==
  LET t == Strip(s) IN
    \E k \in 1..Len(t) :
      /\ t[k] = "/"
      /\ Digits12(SubSeq(t, 1, k - 1))
      /\ Digits12(SubSeq(t, k + 1, Len(t)))

\* Python's  x in s  for two strings: s holds x as a contiguous run.
IsSubstring(x, s) ==
  \E i \in 0..(Len(s) - Len(x)) : SubSeq(s, i + 1, i + Len(x)) = x

\* Python's  a < b  on strings: lexicographic by code point.
RECURSIVE StrLess(_, _)
StrLess(a, b) ==
  IF b = <<>> THEN FALSE
  ELSE IF a = <<>> THEN TRUE
  ELSE IF Ord(Head(a)) # Ord(Head(b)) THEN Ord(Head(a)) < Ord(Head(b))
  ELSE StrLess(Tail(a), Tail(b))

\* value of a run of decimal digits
RECURSIVE ParseInt(_)
ParseInt(s) ==
  IF s = <<>> THEN 0
  ELSE 10 * ParseInt(SubSeq(s, 1, Len(s) - 1)) + DigitVal(s[Len(s)])

DigitChar(d) ==
  CASE d = 0 -> "0" [] d = 1 -> "1" [] d = 2 -> "2" [] d = 3 -> "3"
    [] d = 4 -> "4" [] d = 5 -> "5" [] d = 6 -> "6" [] d = 7 -> "7"
    [] d = 8 -> "8" [] d = 9 -> "9"

\* the decimal text of n, zero-padded to w digits (%02d, %04d)
RECURSIVE Pad(_, _)
Pad(n, w) ==
  IF w = 0 THEN <<>> ELSE Append(Pad(n \div 10, w - 1), DigitChar(n % 10))

(***************************************************************************)
(*                    TABLES (pandas.DataFrame)                            *)
(* A table is [cols |-> column labels, rows |-> data rows], every row as   *)
(* long as cols.  Labels may repeat, as pandas allows.                     *)
(***************************************************************************)

NoneStr == <<"N", "o", "n", "e">>
NanStr == <<"n", "a", "n">>

Width(t) == Len(t.cols)

Max(a, b) == IF a >= b THEN a ELSE b

RECURSIVE MaxRowLen(_)
MaxRowLen(grid) ==
  IF grid = <<>> THEN 0 ELSE Max(Len(Head(grid)), MaxRowLen(Tail(grid)))

\* pandas pads a short row of a list-of-lists with None
PadRow(r, w) == [i \in 1..w |-> IF i <= Len(r) THEN r[i] ELSE NoneStr]

PadRows(grid, w) == [i \in 1..Len(grid) |-> PadRow(grid[i], w)]

\* RangeIndex labels 0..w-1, as str() shows them
RangeLabels(w) == [i \in 1..w |-> <<DigitChar(i - 1)>>]

\* mutant: the last of the widest
LastMaxIndex(ts) ==
  CHOOSE i \in 1..Len(ts) :
    /\ \A j \in 1..Len(ts) : Width(ts[j]) <= Width(ts[i])
    /\ \A j \in (i + 1)..Len(ts) : Width(ts[j]) < Width(ts[i])

\* Python's max(seq, key=...): the first element with the greatest key.
FirstMaxIndex(ts) ==
  CHOOSE i \in 1..Len(ts) :
    /\ \A j \in 1..Len(ts) : Width(ts[j]) <= Width(ts[i])
    /\ \A j \in 1..(i - 1) : Width(ts[j]) < Width(ts[i])

FirstMax(ts) == ts[FirstMaxIndex(ts)]

(***************************************************************************)
(*                         ERRORS                                          *)
(* An exception is [type |-> class name, reason |-> what raised it].       *)
(***************************************************************************)

NoErr == [type |-> "", reason |-> ""]

Raise(t, r) == [type |-> t, reason |-> r]

(***************************************************************************)
(*          extract.py: _try_pdfplumber_fallback, read_pdf_table           *)
(* The PDF is opaque: it is modelled by what each extraction call yields   *)
(* on it, [ok |-> the call returned, tables |-> what it returned].         *)
(* For the fallback backend `tables` holds the raw grids (lists of rows)   *)
(* of page.extract_tables(), all pages in order.                           *)
(***************************************************************************)

\* extract.py 36-48: pd.DataFrame(table[1:], columns=table[0]); when the data
\* is not as wide as the header pandas raises and pd.DataFrame(table) is used.
GridToFrame(grid) ==
  LET hdr == Head(grid)
      data == Tail(grid)
  IN IF MaxRowLen(data) = Len(hdr)
       THEN [cols |-> hdr, rows |-> PadRows(data, Len(hdr))]
       ELSE [cols |-> RangeLabels(MaxRowLen(grid)),
             rows |-> PadRows(grid, MaxRowLen(grid))]

\* extract.py 33-34: a grid needs a header and at least one data row
GridUsable(grid) == Len(grid) >= 2

\* extract.py 39, 45: a frame needs more than two columns
FrameWideEnough(df) == Width(df) > 2

\* extract.py 23-48: tables_data
RECURSIVE PlumberFrames(_)
PlumberFrames(grids) ==
  IF grids = <<>> THEN <<>>
  ELSE LET g == Head(grids)
           rest == PlumberFrames(Tail(grids))
       IN IF ~GridUsable(g) THEN rest
          ELSE IF FrameWideEnough(GridToFrame(g))
                 THEN <<GridToFrame(g)>> \o rest
                 ELSE rest

\* extract.py 13-61: the frames the fallback hands back, <<>> for None
_try_pdfplumber_fallback(plumber) ==
  IF ~plumber.ok THEN <<>>
  ELSE IF PlumberFrames(plumber.tables) = <<>> THEN <<>>
  ELSE <<FirstMax(PlumberFrames(plumber.tables))>>

\* extract.py 76-88, 93-103, 108-119: one tabula call under try/except
TabulaYield(call) == IF call.ok THEN call.tables ELSE <<>>

\* extract.py 72-125: the candidate list dfs
CollectDfs(pdf) ==
  LET d1 == TabulaYield(pdf.lattice) \o TabulaYield(pdf.stream)
      d2 == IF d1 = <<>> THEN TabulaYield(pdf.permissive) ELSE d1
      d3 == IF d2 = <<>> THEN TabulaYield(pdf.whole) ELSE d2
  IN IF d3 = <<>> THEN _try_pdfplumber_fallback(pdf.plumber) ELSE d3

\* extract.py 137: blank labels become col_<index>, the others are stripped
ColLabel(c, i) ==
  IF Strip(c) # <<>> THEN Strip(c) ELSE <<"c", "o", "l", "_", DigitChar(i)>>

RelabelColumns(df) ==
  [cols |-> [i \in 1..Width(df) |-> ColLabel(df.cols[i], i - 1)],
   rows |-> df.rows]

EmptyTable == [cols |-> <<>>, rows |-> <<>>]

\* extract.py 63-139: [err, df]
read_pdf_table(pdf) ==
  IF CollectDfs(pdf) = <<>>
    THEN [err |-> Raise("ValueError", "no_table"), df |-> EmptyTable]
    ELSE [err |-> NoErr, df |-> RelabelColumns(FirstMax(CollectDfs(pdf)))]

(***************************************************************************)
(*                    extract.py: normalize_table                          *)
(***************************************************************************)

\* extract.py 157: set("月火水木金土日")
weekday_set == {"GETSU", "KA", "SUI", "MOKU", "KIN", "DO", "NICHI"}

\* extract.py 179: "スタッフ名"
NameLabel == <<"SU", "TA", "TSU", "FU", "MEI">>

\* extract.py 173: ("名前", "氏名", "スタッフ", "従業員")
NameKeywords ==
  {<<"MEI", "MAE">>, <<"SHI", "MEI">>, <<"SU", "TA", "TSU", "FU">>,
   <<"JUU", "GYOU", "IN">>}

\* how many columns carry label c
CountLabel(cols, c) == Cardinality({i \in 1..Len(cols) : cols[i] = c})

\* str() of the pandas Series that row.get(c) gives when label c repeats:
\* several lines of "label    value" and a dtype footer; only that it is
\* longer than one character and not blank matters to the code.
SeriesRepr == <<"d", "t", "y", "p", "e", ":", " ", "o", "b", "j", "e", "c", "t">>

\* extract.py 159: str(row.get(c, "")) for a row whose index is the labels
RowGet(cols, row, c) ==
  IF CountLabel(cols, c) = 0 THEN <<>>
  ELSE IF CountLabel(cols, c) = 1
         THEN row[CHOOSE i \in 1..Len(cols) : cols[i] = c]
         ELSE SeriesRepr

\* extract.py 144, 151: [c for c in df.columns if _looks_like_md(c)]
DateCols(cols) == SelectSeq(cols, _looks_like_md)

\* extract.py 158-160
is_week_row(cols, row, date_cols) ==
  \A k \in 1..Len(date_cols) :
    LET v == Strip(RowGet(cols, row, date_cols[k]))
    IN v # <<>> => (Len(v) = 1 /\ v[1] \in weekday_set)

\* extract.py 162: df[~df.apply(is_week_row, axis=1)]
DropWeekRows(cols, rows, date_cols) ==
  SelectSeq(rows, LAMBDA r : ~is_week_row(cols, r, date_cols))

InSeq(x, s) == \E i \in 1..Len(s) : s[i] = x

\* extract.py 165
NonDates(cols, date_cols) == SelectSeq(cols, LAMBDA c : ~InSeq(c, date_cols))

\* extract.py 173
HasNameKeyword(c) == \E k \in NameKeywords : IsSubstring(k, c)

\* extract.py 167-169
PositionalCandidates(nondates) ==
  IF Len(nondates) >= 2
    THEN <<nondates[2], nondates[1]>> \o SubSeq(nondates, 3, Len(nondates))
    ELSE nondates

\* extract.py 167-177, for a non-empty nondates
NameCol(nondates) ==
  IF \E i \in 1..Len(nondates) : HasNameKeyword(nondates[i])
    THEN nondates[CHOOSE i \in 1..Len(nondates) :
                    /\ HasNameKeyword(nondates[i])
                    /\ \A j \in 1..(i - 1) : ~HasNameKeyword(nondates[j])]
    ELSE PositionalCandidates(nondates)[1]

\* extract.py 179: df.rename(columns={name_col: "スタッフ名"}) renames every
\* column that carries the label
RenameCols(cols, name_col) ==
  [i \in 1..Len(cols) |-> IF cols[i] = name_col THEN NameLabel ELSE cols[i]]

\* extract.py 147-150: the first row becomes the header
PromoteHeader(df) ==
  [cols |-> [i \in 1..Len(df.rows[1]) |-> Strip(df.rows[1][i])],
   rows |-> Tail(df.rows)]

\* extract.py 148
FirstRowHasDate(df) == \E i \in 1..Len(df.rows[1]) : _looks_like_md(df.rows[1][i])

\* extract.py 156-180, once date_cols is not empty
NormalizeBody(df, date_cols) ==
  LET kept == DropWeekRows(df.cols, df.rows, date_cols)
      nondates == NonDates(df.cols, date_cols)
  IN IF nondates = <<>>
       THEN [err |-> Raise("IndexError", "no_name_column"),
             df |-> EmptyTable, date_cols |-> <<>>]
       ELSE [err |-> NoErr,
             df |-> [cols |-> RenameCols(df.cols, NameCol(nondates)),
                     rows |-> kept],
             date_cols |-> date_cols]

NoDateHeader ==
  [err |-> Raise("ValueError", "no_date_header"),
   df |-> EmptyTable, date_cols |-> <<>>]

\* extract.py 141-180: [err, df, date_cols]
normalize_table(df) ==
  IF DateCols(df.cols) # <<>> THEN NormalizeBody(df, DateCols(df.cols))
  ELSE IF df.rows = <<>>
    THEN [err |-> Raise("IndexError", "iloc_out_of_bounds"),
          df |-> EmptyTable, date_cols |-> <<>>]
  ELSE IF FirstRowHasDate(df)
    THEN NormalizeBody(PromoteHeader(df), DateCols(PromoteHeader(df).cols))
  ELSE NoDateHeader

(***************************************************************************)
(*                    extract.py: extract_person_row                       *)
(***************************************************************************)

\* extract.py 183-184: str(s).replace(" ", "").replace("　", "").strip()
norm(s) == Strip(RemoveChar(RemoveChar(s, " "), "FWSP"))

\* extract.py 193: Series.str.contains(pat) searches pat as a regular
\* expression.  Modelled for patterns of literal characters and ".", which
\* matches any character but a newline.
StrContains(s, pat) ==
  \E i \in 0..(Len(s) - Len(pat)) :
    \A j \in 1..Len(pat) :
      \/ (pat[j] = "." /\ s[i + j] # "\n")
      \/ (pat[j] # "." /\ pat[j] = s[i + j])

\* extract.py 189: the column "__name_norm"
NameNormLabel == <<"_", "_", "n", "a", "m", "e", "_", "n", "o", "r", "m">>

NameColIndex(cols) == CHOOSE i \in 1..Len(cols) : cols[i] = NameLabel

\* extract.py 189: df["スタッフ名"].astype(str).map(norm), row by row
NameNorms(df) ==
  [r \in 1..Len(df.rows) |-> norm(df.rows[r][NameColIndex(df.cols)])]

\* extract.py 190: rows whose normalised name equals the normalised target
ExactRows(df, person) ==
  {r \in 1..Len(df.rows) : NameNorms(df)[r] = norm(person)}

\* extract.py 193: rows whose normalised name holds a match of the target
ContainsRows(df, person) ==
  {r \in 1..Len(df.rows) : StrContains(NameNorms(df)[r], norm(person))}

\* extract.py 190-193: target
TargetRows(df, person) ==
  IF ExactRows(df, person) # {} THEN ExactRows(df, person)
  ELSE ContainsRows(df, person)

MinOf(S) == CHOOSE x \in S : \A y \in S : x <= y

NoRow == [cols |-> <<>>, rows |-> <<>>]

\* extract.py 182-199: [err, row, index].  With the label on several columns
\* df["スタッフ名"] is a DataFrame: pandas before 2.1 has no DataFrame.map
\* (AttributeError), later ones refuse the two-column assignment (ValueError);
\* dataframe_map tells which pandas is installed.
extract_person_row(df, date_cols, person, dataframe_map) ==
  IF CountLabel(df.cols, NameLabel) = 0
    THEN [err |-> Raise("ValueError", "no_name_label"), row |-> NoRow, index |-> 0]
  ELSE IF CountLabel(df.cols, NameLabel) > 1
    THEN [err |-> Raise(IF dataframe_map THEN "ValueError" ELSE "AttributeError",
                        "name_label_repeated"),
          row |-> NoRow, index |-> 0]
  ELSE IF TargetRows(df, person) = {}
    THEN [err |-> Raise("ValueError", "person_not_found"), row |-> NoRow, index |-> 0]
  ELSE LET r == MinOf(TargetRows(df, person))
       IN [err |-> NoErr,
           row |-> [cols |-> Append(df.cols, NameNormLabel),
                    rows |-> <<Append(df.rows[r], NameNorms(df)[r])>>],
           index |-> r]

(***************************************************************************)
(*                    transform.py: load_code_map                          *)
(* The CSV source is [exists, fields |-> the header's column names,        *)
(* rows |-> records of the field texts code, start, end].                  *)
(***************************************************************************)

\* field texts pandas.read_csv reads as a missing value
CsvNaValues == {<<>>, NanStr, <<"N", "A">>}

IsNa(f) == f \in CsvNaValues

\* transform.py 10: str(r["code"]).strip()
CsvCode(f) == IF IsNa(f) THEN NanStr ELSE Strip(f)

\* transform.py 11-12: str(r[..]) if not pd.isna(r[..]) else ""
CsvTime(f) == IF IsNa(f) THEN <<>> ELSE f

EmptyMap == [c \in {} |-> <<>>]

\* transform.py 9-13: m[code] = (start, end), a later row replacing an earlier
RECURSIVE BuildMap(_)
BuildMap(rows) ==
  IF rows = <<>> THEN EmptyMap
  ELSE LET r == rows[Len(rows)]
           before == BuildMap(SubSeq(rows, 1, Len(rows) - 1))
           code == CsvCode(r.code)
       IN [c \in (DOMAIN before) \cup {code} |->
             IF c = code THEN <<CsvTime(r.start), CsvTime(r.end)>> ELSE before[c]]

RequiredFields == {"code", "start", "end"}

\* transform.py 6-14: [err, map]
load_code_map(csv) ==
  IF ~csv.exists
    THEN [err |-> Raise("FileNotFoundError", "code_map_missing"), map |-> EmptyMap]
  ELSE IF csv.fields = {}
    THEN [err |-> Raise("EmptyDataError", "code_map_empty"), map |-> EmptyMap]
  ELSE IF csv.rows # <<>> /\ ~(RequiredFields \subseteq csv.fields)
    THEN [err |-> Raise("KeyError", "code_map_columns"), map |-> EmptyMap]
  ELSE [err |-> NoErr, map |-> BuildMap(csv.rows)]

(***************************************************************************)
(*                    transform.py: to_events                              *)
(* A datetime is [y, m, d, hh, mi]; [y |-> 0, ...] stands for the          *)
(* ValueError strptime raises.                                             *)
(***************************************************************************)

IsLeap(y) == (y % 4 = 0 /\ y % 100 # 0) \/ y % 400 = 0

DaysIn(y, m) ==
  IF m = 2 THEN (IF IsLeap(y) THEN 29 ELSE 28)
  ELSE IF m \in {4, 6, 9, 11} THEN 30 ELSE 31

BadDt == [y |-> 0, m |-> 0, d |-> 0, hh |-> 0, mi |-> 0]

\* the position of the first occurrence of character ch in s, 0 when absent
FirstIndexOf(s, ch) ==
  IF \E i \in 1..Len(s) : s[i] = ch
    THEN MinOf({i \in 1..Len(s) : s[i] = ch})
    ELSE 0

\* strptime directives %m and %d: one or two digits, not zero
DateField(s, hi) == Digits12(s) /\ ParseInt(s) >= 1 /\ ParseInt(s) <= hi

\* mutant: any one or two digits pass for an hour or a minute
TimeFieldUnbounded(s, hi) == Digits12(s)

\* strptime directives %H and %M: one or two digits up to hi
TimeField(s, hi) == Digits12(s) /\ ParseInt(s) <= hi

\* transform.py 26: datetime.strptime(f"{year}/{md}", "%Y/%m/%d"); %Y takes
\* exactly four digits
ParseBase(year, md) ==
  LET k == FirstIndexOf(md, "/")
      ms == SubSeq(md, 1, k - 1)
      ds == SubSeq(md, k + 1, Len(md))
  IN IF /\ year >= 1000 /\ year <= 9999
        /\ k > 0
        /\ DateField(ms, 12)
        /\ DateField(ds, 31)
        /\ ParseInt(ds) <= DaysIn(year, ParseInt(ms))
       THEN [y |-> year, m |-> ParseInt(ms), d |-> ParseInt(ds), hh |-> 0, mi |-> 0]
       ELSE BadDt

\* transform.py 28, 31: datetime.strptime(hm, "%H:%M").time(), <<-1, -1>> for
\* the ValueError
ParseTime(hm) ==
  LET k == FirstIndexOf(hm, ":")
      hs == SubSeq(hm, 1, k - 1)
      ms == SubSeq(hm, k + 1, Len(hm))
  IN IF k > 0 /\ TimeField(hs, 23) /\ TimeField(ms, 59)
       THEN <<ParseInt(hs), ParseInt(ms)>>
       ELSE <<-1, -1>>

\* base + timedelta(days=1)
NextDay(dt) ==
  IF dt.d < DaysIn(dt.y, dt.m) THEN [dt EXCEPT !.d = dt.d + 1]
  ELSE IF dt.m < 12 THEN [dt EXCEPT !.m = dt.m + 1, !.d = 1]
  ELSE [dt EXCEPT !.y = dt.y + 1, !.m = 1, !.d = 1]

\* hm.endswith("+1")
EndsWithPlus1(hm) ==
  Len(hm) >= 2 /\ hm[Len(hm) - 1] = "+" /\ hm[Len(hm)] = "1"

\* transform.py 25-32
parse_dt(year, md, hm) ==
  LET base == ParseBase(year, md)
      plus == EndsWithPlus1(hm)
      t == ParseTime(IF plus THEN SubSeq(hm, 1, Len(hm) - 2) ELSE hm)
      day == IF plus THEN NextDay(base) ELSE base
  IN IF base = BadDt \/ t = <<-1, -1>> THEN BadDt
     ELSE [day EXCEPT !.hh = t[1], !.mi = t[2]]

\* strftime("%Y-%m-%d")
FmtDate(dt) == Pad(dt.y, 4) \o <<"-">> \o Pad(dt.m, 2) \o <<"-">> \o Pad(dt.d, 2)

\* strftime("%H:%M")
FmtTime(dt) == Pad(dt.hh, 2) \o <<":">> \o Pad(dt.mi, 2)

SameDate(a, b) == a.y = b.y /\ a.m = b.m /\ a.d = b.d

\* mutant: only the empty string means no shift
BlankCodesEmptyOnly == {<<>>}

\* transform.py 37: the codes that mean no shift
BlankCodes == {<<>>, NanStr, NoneStr}

\* transform.py 18-20: melt and strip; the k-th pair is the k-th date column
\* of the row and its cell
DateColPositions(cols, date_cols) ==
  SelectSeq([i \in 1..Len(cols) |-> i], LAMBDA i : InSeq(cols[i], date_cols))

\* mutant: the cells are not stripped
MeltPairsUnstripped(target_row, date_cols) ==
  LET pos == DateColPositions(target_row.cols, date_cols)
  IN [k \in 1..Len(pos) |->
        [md |-> target_row.cols[pos[k]], code |-> target_row.rows[1][pos[k]]]]

MeltPairs(target_row, date_cols) ==
  LET pos == DateColPositions(target_row.cols, date_cols)
  IN [k \in 1..Len(pos) |->
        [md |-> target_row.cols[pos[k]],
         code |-> Strip(target_row.rows[1][pos[k]])]]

\* transform.py 37-45: the pair reaches parse_dt
Resolves(p, code_map) ==
  /\ p.code \notin BlankCodes
  /\ p.code \in DOMAIN code_map
  /\ code_map[p.code][1] # <<>>
  /\ code_map[p.code][2] # <<>>

\* transform.py 39-41
IsUnknown(p, code_map) ==
  p.code \notin BlankCodes /\ p.code \notin DOMAIN code_map

\* transform.py 54
EndPlus1(start_dt, end_dt) == ~SameDate(end_dt, start_dt)

\* transform.py 47-57
MakeEvent(p, code_map, year) ==
  LET start_dt == parse_dt(year, p.md, code_map[p.code][1])
      end_dt == parse_dt(year, p.md, code_map[p.code][2])
  IN [date |-> FmtDate(start_dt),
      start |-> FmtTime(start_dt),
      end |-> FmtTime(end_dt),
      end_plus1 |-> EndPlus1(start_dt, end_dt),
      title |-> p.code,
      code |-> p.code]

\* transform.py 47-48: either parse_dt call raises
ParseFails(p, code_map, year) ==
  \/ parse_dt(year, p.md, code_map[p.code][1]) = BadDt
  \/ parse_dt(year, p.md, code_map[p.code][2]) = BadDt

\* mutant: an element goes before the elements of equal key
KeyLessOrEqual(a, b) ==
  \/ StrLess(a.date, b.date)
  \/ (a.date = b.date /\ (a.start = b.start \/ StrLess(a.start, b.start)))

\* transform.py 60: the sort key (e["date"], e["start"])
KeyLess(a, b) ==
  \/ StrLess(a.date, b.date)
  \/ (a.date = b.date /\ StrLess(a.start, b.start))

\* list.sort is stable: an element goes after every element not greater
RECURSIVE InsertSorted(_, _)
InsertSorted(sorted, e) ==
  IF sorted = <<>> THEN <<e>>
  ELSE IF KeyLess(e, Head(sorted)) THEN <<e>> \o sorted
  ELSE <<Head(sorted)>> \o InsertSorted(Tail(sorted), e)

RECURSIVE SortEvents(_)
SortEvents(es) ==
  IF es = <<>> THEN <<>>
  ELSE InsertSorted(SortEvents(SubSeq(es, 1, Len(es) - 1)), es[Len(es)])

\* transform.py 61: sorted(list(unknown))
RECURSIVE SortedStrings(_)
SortedStrings(S) ==
  IF S = {} THEN <<>>
  ELSE LET least == CHOOSE x \in S : \A y \in S : y = x \/ StrLess(x, y)
       IN <<least>> \o SortedStrings(S \ {least})

\* transform.py 34-57: the events in the order the loop appends them
RawEvents(pairs, code_map, year) ==
  LET hit == SelectSeq(pairs, LAMBDA p : Resolves(p, code_map))
  IN [k \in 1..Len(hit) |-> MakeEvent(hit[k], code_map, year)]

\* transform.py 16-61: [err, events, unknown]
to_events(target_row, date_cols, code_map, year) ==
  LET pairs == MeltPairs(target_row, date_cols)
  IN IF \E k \in 1..Len(pairs) :
          Resolves(pairs[k], code_map) /\ ParseFails(pairs[k], code_map, year)
       THEN [err |-> Raise("ValueError", "time_data_format"),
             events |-> <<>>, unknown |-> <<>>]
       ELSE [err |-> NoErr,
             events |-> SortEvents(RawEvents(pairs, code_map, year)),
             unknown |-> SortedStrings({pairs[k].code : k \in
                           {j \in 1..Len(pairs) : IsUnknown(pairs[j], code_map)}})]

(***************************************************************************)
(*                    main.py: _tz_dt                                      *)
(***************************************************************************)

\* isoformat() of a datetime carrying the +09:00 offset
IsoJst(dt) ==
  FmtDate(dt) \o <<"T">> \o FmtTime(dt) \o <<":", "0", "0", "+", "0", "9", ":", "0", "0">>

\* main.py 141: datetime.strptime(f"{date_str} {time_str}", "%Y-%m-%d %H:%M")
ParseDateTime(date_str, time_str) ==
  LET k1 == FirstIndexOf(date_str, "-")
      rest == SubSeq(date_str, k1 + 1, Len(date_str))
      k2 == FirstIndexOf(rest, "-")
      ys == SubSeq(date_str, 1, k1 - 1)
      ms == SubSeq(rest, 1, k2 - 1)
      ds == SubSeq(rest, k2 + 1, Len(rest))
      t == ParseTime(time_str)
  IN IF /\ k1 > 0 /\ k2 > 0
        /\ Len(ys) = 4 /\ AllDigits(ys) /\ ParseInt(ys) >= 1
        /\ DateField(ms, 12) /\ DateField(ds, 31)
        /\ ParseInt(ds) <= DaysIn(ParseInt(ys), ParseInt(ms))
        /\ t # <<-1, -1>>
       THEN [y |-> ParseInt(ys), m |-> ParseInt(ms), d |-> ParseInt(ds),
             hh |-> t[1], mi |-> t[2]]
       ELSE BadDt

\* main.py 139-146
_tz_dt(date_str, time_str, plus_one) ==
  LET dt == ParseDateTime(date_str, time_str)
  IN IsoJst(IF plus_one THEN NextDay(dt) ELSE dt)

(***************************************************************************)
(*                    main.py: api_upload, step by step                    *)
(***************************************************************************)

VARIABLES
  pc,            \* where api_upload stands
  pdf,           \* the uploaded file, by what the extraction calls yield on it
  name,          \* form field name
  year,          \* form field year
  csv,           \* the file at CODES_CSV
  dataframe_map, \* the installed pandas has DataFrame.map
  raw_df,        \* df of main.py 233
  df,            \* df of main.py 236
  date_cols,     \* date_cols of main.py 236
  person_row,    \* person_row of main.py 239
  row_index,     \* the row of df that person_row is
  code_map,      \* code_map of main.py 242
  events,        \* events of main.py 245
  unknown,       \* unknown of main.py 245
  err,           \* the exception caught at main.py 248
  log,           \* the "Error in API upload" lines printed so far (main.py 249)
  jobs,          \* request.session["jobs"]: job id -> saved job
  job_id,        \* job_id of main.py 258, 0 before the first
  calendar,      \* the entries inserted into the calendar, in order
  credentials,   \* request.session holds "credentials"
  commit_result  \* how the last api_commit ended

vars ==
  <<pc, pdf, name, year, csv, dataframe_map, raw_df, df, date_cols, person_row,
    row_index, code_map, events, unknown, err, log,
    jobs, job_id, calendar, credentials, commit_result>>

\* the session, the calendar and the last commit
web == <<jobs, job_id, calendar, credentials, commit_result>>

\* how many error lines the model keeps
MaxLog == 2

\* how many jobs the model lets one session hold
MaxJobs == 1

\* api_commit is taken while the calendar holds fewer entries than this
MaxCalendar == 2

\* main.py 248-256: the except clause
Fail(e) ==
  /\ pc' = "failed"
  /\ err' = e
  /\ log' = Append(log, e)

\* main.py 233
ReadPdfTable ==
  /\ pc = "read"
  /\ LET r == read_pdf_table(pdf)
     IN IF r.err = NoErr
          THEN /\ pc' = "normalize"
               /\ raw_df' = r.df
               /\ UNCHANGED <<err, log>>
          ELSE /\ Fail(r.err)
               /\ UNCHANGED raw_df
  /\ UNCHANGED <<pdf, name, year, csv, dataframe_map, df, date_cols, person_row,
                 row_index, code_map, events, unknown>>
  /\ UNCHANGED web

\* main.py 236
NormalizeTable ==
  /\ pc = "normalize"
  /\ LET r == normalize_table(raw_df)
     IN IF r.err = NoErr
          THEN /\ pc' = "select"
               /\ df' = r.df
               /\ date_cols' = r.date_cols
               /\ UNCHANGED <<err, log>>
          ELSE /\ Fail(r.err)
               /\ UNCHANGED <<df, date_cols>>
  /\ UNCHANGED <<pdf, name, year, csv, dataframe_map, raw_df, person_row,
                 row_index, code_map, events, unknown>>
  /\ UNCHANGED web

\* main.py 239: extract_person_row(df, date_cols, name.strip())
ExtractPersonRow ==
  /\ pc = "select"
  /\ LET r == extract_person_row(df, date_cols, Strip(name), dataframe_map)
     IN IF r.err = NoErr
          THEN /\ pc' = "load"
               /\ person_row' = r.row
               /\ row_index' = r.index
               /\ UNCHANGED <<err, log>>
          ELSE /\ Fail(r.err)
               /\ UNCHANGED <<person_row, row_index>>
  /\ UNCHANGED <<pdf, name, year, csv, dataframe_map, raw_df, df, date_cols,
                 code_map, events, unknown>>
  /\ UNCHANGED web

\* main.py 242
LoadCodeMap ==
  /\ pc = "load"
  /\ LET r == load_code_map(csv)
     IN IF r.err = NoErr
          THEN /\ pc' = "events"
               /\ code_map' = r.map
               /\ UNCHANGED <<err, log>>
          ELSE /\ Fail(r.err)
               /\ UNCHANGED code_map
  /\ UNCHANGED <<pdf, name, year, csv, dataframe_map, raw_df, df, date_cols,
                 person_row, row_index, events, unknown>>
  /\ UNCHANGED web

\* main.py 245
ToEvents ==
  /\ pc = "events"
  /\ LET r == to_events(person_row, date_cols, code_map, year)
     IN IF r.err = NoErr
          THEN /\ pc' = "done"
               /\ events' = r.events
               /\ unknown' = r.unknown
               /\ UNCHANGED <<err, log>>
          ELSE /\ Fail(r.err)
               /\ UNCHANGED <<events, unknown>>
  /\ UNCHANGED <<pdf, name, year, csv, dataframe_map, raw_df, df, date_cols,
                 person_row, row_index, code_map>>
  /\ UNCHANGED web

(***************************************************************************)
(*        main.py: _save_job_to_session, api_upload's end, api_commit      *)
(* The session is a signed cookie of JSON; texts, numbers and booleans     *)
(* come back from it as they went in.                                      *)
(***************************************************************************)

\* main.py 102: the 50 of job_data["events"][:50]
SessionEventLimit == 50

\* q[:n]
Take(q, n) == SubSeq(q, 1, IF Len(q) < n THEN Len(q) ELSE n)

\* the session before any upload
NoJobs == [id \in {} |-> <<>>]

\* main.py 100-108
LightweightJob(job_data) ==
  [uploader_name |-> job_data.uploader_name,
   events |-> Take(job_data.events, SessionEventLimit),
   year |-> job_data.year,
   created |-> job_data.created,
   updated |-> job_data.updated,
   skipped |-> job_data.skipped,
   deleted |-> job_data.deleted]

\* main.py 94-111: request.session["jobs"] after the call
_save_job_to_session(session_jobs, id, job_data) ==
  [k \in (DOMAIN session_jobs) \cup {id} |->
     IF k = id THEN LightweightJob(job_data) ELSE session_jobs[k]]

\* main.py 113-122
_get_job_from_session(session_jobs, id) ==
  IF id \in DOMAIN session_jobs THEN {session_jobs[id]} ELSE {}

\* main.py 258: uuid4().hex, an id no saved job has
FreshJobId(session_jobs) == Cardinality(DOMAIN session_jobs) + 1

\* main.py 259-265
JobData ==
  [uploader_name |-> Strip(name),
   events |-> events,
   unknown_codes |-> unknown,
   created |-> 0, updated |-> 0, skipped |-> 0, deleted |-> 0,
   year |-> year]

\* main.py 258-273: the end of api_upload
SaveJob ==
  /\ pc = "done"
  /\ pc' = "saved"
  /\ job_id' = FreshJobId(jobs)
  /\ jobs' = _save_job_to_session(jobs, FreshJobId(jobs), JobData)
  /\ UNCHANGED <<pdf, name, year, csv, dataframe_map, raw_df, df, date_cols,
                 person_row, row_index, code_map, events, unknown, err, log,
                 calendar, credentials, commit_result>>

\* main.py 394: the text before the code in the description
DescriptionPrefix == <<"MOTO", "KO", "-", "DO", ":", " ">>

\* main.py 386-395: the entry inserted for event e
EventBody(e) ==
  [summary |-> e.title,
   start |-> _tz_dt(e.date, e.start, FALSE),
   end |-> _tz_dt(e.date, e.end, e.end_plus1),
   description |-> DescriptionPrefix \o e.code]

\* main.py 384-397: the entries of a job, in the order of the loop
EventBodies(job) == [i \in 1..Len(job.events) |-> EventBody(job.events[i])]

NoCommit == [status |-> 0, job_id |-> 0, created |-> 0]

\* main.py 375-402: api_commit for job id; the calendar service takes every
\* insert, or raises at one of them
ApiCommit ==
  /\ pc \in {"saved", "failed"}
  /\ Len(calendar) < MaxCalendar
  /\ \E id \in (DOMAIN jobs) \cup {0} :
       IF _get_job_from_session(jobs, id) = {}
         THEN /\ commit_result' = [status |-> 404, job_id |-> id, created |-> 0]
              /\ UNCHANGED <<jobs, calendar>>
       ELSE IF ~credentials
         THEN /\ commit_result' = [status |-> 401, job_id |-> id, created |-> 0]
              /\ UNCHANGED <<jobs, calendar>>
       ELSE LET job == jobs[id]
                bodies == EventBodies(job)
            IN \/ /\ calendar' = calendar \o bodies
                  /\ jobs' = _save_job_to_session(
                               jobs, id, [job EXCEPT !.created = Len(bodies)])
                  /\ commit_result' =
                       [status |-> 303, job_id |-> id, created |-> Len(bodies)]
               \/ \E k \in {0, Len(bodies) - 1} :
                    /\ k >= 0
                    /\ calendar' = calendar \o SubSeq(bodies, 1, k)
                    /\ commit_result' =
                         [status |-> 500, job_id |-> id, created |-> 0]
                    /\ UNCHANGED jobs
  /\ UNCHANGED <<pc, pdf, name, year, csv, dataframe_map, raw_df, df, date_cols,
                 person_row, row_index, code_map, events, unknown, err, log,
                 job_id, credentials>>

\* nothing saved, nothing inserted, nothing committed
IdleWeb ==
  /\ jobs = NoJobs
  /\ job_id = 0
  /\ calendar = <<>>
  /\ commit_result = NoCommit

(***************************************************************************)
(*                    INPUTS                                               *)
(***************************************************************************)

\* bounds of the input sets
MaxTables == 2   \* tables one extraction call yields
MaxRows == 2     \* data rows of a table handed to normalize_table
MaxPeople == 3   \* rows of a table handed to extract_person_row
MaxDays == 3     \* date columns of a row handed to to_events

\* every sequence over S of length at most n
RECURSIVE SeqsUpTo(_, _)
SeqsUpTo(S, n) ==
  IF n = 0 THEN {<<>>}
  ELSE LET shorter == SeqsUpTo(S, n - 1)
       IN shorter \cup {Append(q, x) : q \in shorter, x \in S}

RECURSIVE SeqsOfLen(_, _)
SeqsOfLen(S, n) ==
  IF n = 0 THEN {<<>>}
  ELSE {Append(q, x) : q \in SeqsOfLen(S, n - 1), x \in S}

\* texts
Blank == <<>>
D41 == <<"4", "/", "1">>
D42 == <<"4", "/", "2">>
D229 == <<"2", "/", "2", "9">>
D1231 == <<"1", "2", "/", "3", "1">>
Col0 == <<"c", "o", "l", "_", "0">>
LabelA == <<"a">>
LabelB == <<"b">>
LabelC == <<"c">>
ShiMei == <<"SHI", "MEI">>
Getsu == <<"GETSU">>
Ka == <<"KA">>
CodeA == <<"A">>
CodeB == <<"B">>
CodeC == <<"C">>
CodeN == <<"N">>
CodeX == <<"X">>
CodeZ == <<"Z">>
Yamada == <<"YAMA", "DA">>
YamadaTaro == <<"YAMA", "DA", "TARO">>

Table(c, r) == [cols |-> c, rows |-> r]

Call(ok, ts) == [ok |-> ok, tables |-> ts]

Failed == Call(FALSE, <<>>)

Nothing == Call(TRUE, <<>>)

\* ---- read_pdf_table ----

\* candidate tables of widths 1 to 3, with and without data rows
LocTables ==
  {Table(<<LabelA>>, <<>>),
   Table(<<LabelA, LabelB>>, <<>>),
   Table(<<LabelB, Blank>>, <<<<CodeA, CodeB>>>>),
   Table(<<LabelA, LabelB, LabelC>>, <<>>),
   Table(<<Blank, ShiMei, D41>>, <<<<Blank, Yamada, CodeA>>>>)}

\* grids of the fallback backend: none, header only, narrow, wide, ragged
LocGrids ==
  {<<>>,
   <<<<LabelA, LabelB, LabelC, D41>>>>,
   <<<<LabelA, LabelB>>, <<CodeA, CodeB>>>>,
   <<<<LabelA, LabelB, LabelC>>, <<CodeA, CodeB, CodeC>>>>,
   <<<<ShiMei, D41, D42>>, <<Yamada, CodeA, CodeB>>>>,
   <<<<LabelA, LabelB>>, <<CodeA, CodeB, CodeC>>>>,
   <<<<LabelA, LabelB, LabelC>>, <<CodeA>>, <<CodeA, CodeB, CodeC>>>>}

TabulaCalls == {Failed} \cup {Call(TRUE, ts) : ts \in SeqsUpTo(LocTables, MaxTables)}

\* multiple_tables=False: at most one table
WholeCalls == {Failed} \cup {Call(TRUE, ts) : ts \in SeqsUpTo(LocTables, 1)}

PlumberCalls == {Failed} \cup {Call(TRUE, gs) : gs \in SeqsUpTo(LocGrids, MaxTables)}

Quiet == {Failed, Nothing}

OneWide == Call(TRUE, <<Table(<<LabelC, LabelB, LabelA>>, <<>>)>>)

OneGrid == Call(TRUE, <<<<<<LabelC, LabelB, LabelA>>, <<CodeA, CodeB, CodeC>>>>>>)

Pdf(l, s, p, w, f) ==
  [lattice |-> l, stream |-> s, permissive |-> p, whole |-> w, plumber |-> f]

LocPdfs ==
  {Pdf(l, s, OneWide, OneWide, OneGrid) : l \in TabulaCalls, s \in TabulaCalls}
  \cup {Pdf(l, s, p, OneWide, OneGrid) : l \in Quiet, s \in Quiet, p \in TabulaCalls}
  \cup {Pdf(q, q, q, w, OneGrid) : q \in Quiet, w \in WholeCalls}
  \cup {Pdf(q, q, q, q, f) : q \in Quiet, f \in PlumberCalls}

NoPdf == Pdf(Failed, Failed, Failed, Failed, Failed)

\* ---- normalize_table ----

Space == <<" ">>
D42Padded == <<" ", "4", "/", "2", " ">>

NormLabels ==
  {<<Col0, ShiMei, D41>>,
   <<LabelA, LabelB, D41>>,
   <<LabelA, D41, D42>>,
   <<LabelA, LabelB, LabelC>>,
   <<ShiMei, NameLabel, D41>>,
   <<LabelA, LabelA, D41>>,
   <<LabelA, D41, D41>>,
   <<D41, D42, D1231>>}

NormFirstCells == {Blank, Yamada, D41}

NormCells == {Blank, Getsu, CodeA, D42Padded, NanStr}

NormRows == {<<a, b, c>> : a \in NormFirstCells, b \in NormCells, c \in NormCells}

NormTables == {Table(c, r) : c \in NormLabels, r \in SeqsUpTo(NormRows, MaxRows)}

\* ---- extract_person_row ----

YamaSpDa == <<"YAMA", " ", "DA">>
YamaFwDa == <<"YAMA", "FWSP", "DA">>
YamaTabDa == <<"YAMA", "\t", "DA">>
YamaNlDa == <<"YAMA", "\n", "DA">>

NameCells == {Yamada, YamadaTaro, YamaFwDa, YamaNlDa, <<"DA">>, NanStr}

Targets ==
  {Yamada, YamaSpDa, <<" ", "YAMA", "FWSP", "DA", " ">>, YamaTabDa,
   <<"YAMA", ".", "TARO">>, <<"TARO">>, Blank, <<"KIN">>}

PeopleRows == {<<n, CodeA>> : n \in NameCells}

PeopleTables ==
  {Table(<<NameLabel, D41>>, r) : r \in SeqsUpTo(PeopleRows, MaxPeople)}
  \cup {Table(<<NameLabel, NameLabel, D41>>, <<<<Yamada, Yamada, CodeA>>>>),
        Table(<<LabelA, D41>>, <<<<Yamada, CodeA>>>>)}

\* ---- load_code_map ----

CsvRow(c, s, e) == [code |-> c, start |-> s, end |-> e]

T0900 == <<"0", "9", ":", "0", "0">>
T1800 == <<"1", "8", ":", "0", "0">>
T2200 == <<"2", "2", ":", "0", "0">>
T0700P == <<"0", "7", ":", "0", "0", "+", "1">>
T0100P == <<"0", "1", ":", "0", "0", "+", "1">>
T0900P == <<"0", "9", ":", "0", "0", "+", "1">>
T2200P == <<"2", "2", ":", "0", "0", "+", "1">>
T0700 == <<"0", "7", ":", "0", "0">>
T900 == <<"9", ":", "0", "0">>
T2500 == <<"2", "5", ":", "0", "0">>
T100 == <<"1", ":", "0", "0">>

AllFields == {"code", "start", "end"}

\* day shift, overnight shift, day off
CsvPlain ==
  [exists |-> TRUE, fields |-> AllFields,
   rows |-> <<CsvRow(CodeA, T0900, T1800),
              CsvRow(<<" ", "N">>, T2200, T0700P),
              CsvRow(CodeX, Blank, Blank)>>]

\* both ends on the next day, start on the next day only, half-empty day off,
\* a code read as a missing value, a start at the hour another code starts
\* on the next day
CsvShifted ==
  [exists |-> TRUE, fields |-> AllFields,
   rows |-> <<CsvRow(CodeA, T0100P, T0900P),
              CsvRow(CodeN, T2200P, T0700),
              CsvRow(CodeX, T0900, NanStr),
              CsvRow(Blank, T0900, T1800),
              CsvRow(CodeB, T100, T0900)>>]

\* an unparsable time, and a replaced entry
CsvMalformed ==
  [exists |-> TRUE, fields |-> AllFields,
   rows |-> <<CsvRow(CodeA, T0700, T0900),
              CsvRow(CodeA, T900, T1800),
              CsvRow(CodeB, T2500, T1800),
              CsvRow(CodeN, T2200, T0700P)>>]

CsvMissing == [exists |-> FALSE, fields |-> {}, rows |-> <<>>]

CsvEmpty == [exists |-> TRUE, fields |-> {}, rows |-> <<>>]

CsvNoColumns ==
  [exists |-> TRUE, fields |-> {"code", "from", "to"},
   rows |-> <<CsvRow(CodeA, T0900, T1800)>>]

LoadableCsvs == {CsvPlain, CsvShifted, CsvMalformed}

Csvs == LoadableCsvs \cup {CsvMissing, CsvEmpty, CsvNoColumns}

\* ---- to_events ----

EventCells == {Blank, <<" ", "A">>, CodeB, CodeN, CodeX, CodeZ, <<"C", " ">>, NanStr}

\* the orders date columns come in
DateOrders ==
  {<<D41, D42, D1231, D229>>, <<D1231, D41, D42, D229>>, <<D229, D42, D41, D1231>>}

DateSeqs == {SubSeq(o, 1, n) : o \in DateOrders, n \in 0..MaxDays}

Years == {2024, 2025}

PersonRow(ds, cs) ==
  Table(<<NameLabel>> \o ds \o <<NameNormLabel>>, <<<<YamaSpDa>> \o cs \o <<Yamada>>>>)

PersonRows ==
  UNION {{PersonRow(ds, cs) : cs \in SeqsOfLen(EventCells, Len(ds))} : ds \in DateSeqs}

\* ---- api_upload to api_commit ----

\* date columns of the widest roster row
MaxWide == 52

\* the label of the i-th day of the year, January and February
DayLabel(i) ==
  LET text(n) == IF n < 10 THEN <<DigitChar(n)>> ELSE Pad(n, 2)
  IN IF i <= 31 THEN <<"1", "/">> \o text(i) ELSE <<"2", "/">> \o text(i - 31)

\* rosters of a few days, and of about as many days as the session keeps
WideWidths == {0, 1, 2} \cup {w \in 1..MaxWide : w >= SessionEventLimit - 1}

\* a shift every day; a day off every seventh day; day and night in turn
WidePatterns == {"daily", "weekly_off", "day_night"}

WideCell(p, i) ==
  IF p = "weekly_off" /\ i % 7 = 0 THEN CodeX
  ELSE IF p = "day_night" /\ i % 2 = 0 THEN CodeN
  ELSE CodeA

WideRows ==
  {PersonRow([i \in 1..w |-> DayLabel(i)], [i \in 1..w |-> WideCell(p, i)]) :
     w \in WideWidths, p \in WidePatterns}

\* ---- api_upload ----

\* a roster as tabula reads it: blank first label, a weekday row, two people
Roster ==
  Table(<<Blank, ShiMei, D41, D42>>,
        <<<<Blank, Blank, Getsu, Ka>>,
          <<Blank, YamaFwDa, CodeA, CodeN>>,
          <<Blank, YamadaTaro, CodeX, CodeZ>>>>)

\* the header read as the first data row
HeaderlessRoster ==
  Table(<<<<"0">>, <<"1">>, <<"2">>>>,
        <<<<NanStr, D229, D42>>, <<Yamada, CodeB, CodeA>>>>)

UploadPdfs ==
  {NoPdf,
   Pdf(Call(TRUE, <<Roster>>), Failed, Failed, Failed, Failed),
   Pdf(Nothing, Call(TRUE, <<HeaderlessRoster>>), Failed, Failed, Failed),
   Pdf(Call(TRUE, <<Table(<<LabelA, LabelB>>, <<<<Yamada, CodeA>>>>)>>),
       Nothing, Failed, Failed, Failed),
   Pdf(Call(TRUE, <<Table(<<LabelA, LabelB>>, <<>>)>>), Nothing, Failed, Failed, Failed),
   Pdf(Failed, Failed, Nothing, Call(TRUE, <<Table(<<D41, D42>>, <<<<CodeA, CodeB>>>>)>>),
       Failed),
   Pdf(Failed, Failed, Failed, Failed,
       Call(TRUE, <<<<<<ShiMei, NameLabel, D41>>, <<Yamada, Yamada, CodeA>>>>>>))}

UploadNames == {<<" ", "YAMA", "DA", " ">>, <<"KIN">>}

Idle ==
  /\ raw_df = EmptyTable
  /\ df = EmptyTable
  /\ date_cols = <<>>
  /\ person_row = NoRow
  /\ row_index = 0
  /\ code_map = EmptyMap
  /\ events = <<>>
  /\ unknown = <<>>
  /\ err = NoErr

\* a request arrives (main.py 223-230)
Init ==
  /\ pc = "read"
  /\ pdf \in UploadPdfs
  /\ name \in UploadNames
  /\ year \in Years
  /\ csv \in Csvs
  /\ dataframe_map \in BOOLEAN
  /\ Idle
  /\ log = <<>>
  /\ IdleWeb
  /\ credentials \in BOOLEAN

\* the next request: api_upload again, the server's output kept
NewUpload ==
  /\ pc \in {"saved", "failed"}
  /\ Len(log) < MaxLog
  /\ Cardinality(DOMAIN jobs) < MaxJobs
  /\ pc' = "read"
  /\ pdf' \in UploadPdfs
  /\ name' \in UploadNames
  /\ year' \in Years
  /\ csv' \in Csvs
  /\ raw_df' = EmptyTable
  /\ df' = EmptyTable
  /\ date_cols' = <<>>
  /\ person_row' = NoRow
  /\ row_index' = 0
  /\ code_map' = EmptyMap
  /\ events' = <<>>
  /\ unknown' = <<>>
  /\ err' = NoErr
  /\ UNCHANGED <<dataframe_map, log>>
  /\ UNCHANGED web

Next ==
  \/ ReadPdfTable
  \/ NormalizeTable
  \/ ExtractPersonRow
  \/ LoadCodeMap
  \/ ToEvents
  \/ SaveJob
  \/ ApiCommit
  \/ NewUpload

Spec == Init /\ [][Next]_vars

\* read_pdf_table alone, over every combination of what the calls yield
InitLocate ==
  /\ pc = "read"
  /\ pdf \in LocPdfs
  /\ name = Yamada
  /\ year = 2025
  /\ csv = CsvPlain
  /\ dataframe_map = TRUE
  /\ Idle
  /\ log = <<>>
  /\ IdleWeb
  /\ credentials = FALSE

SpecLocate == InitLocate /\ [][ReadPdfTable]_vars

\* normalize_table alone, over the tables read_pdf_table can hand it
InitNormalize ==
  /\ pc = "normalize"
  /\ pdf = NoPdf
  /\ name = Yamada
  /\ year = 2025
  /\ csv = CsvPlain
  /\ dataframe_map = TRUE
  /\ raw_df \in NormTables
  /\ df = EmptyTable
  /\ date_cols = <<>>
  /\ person_row = NoRow
  /\ row_index = 0
  /\ code_map = EmptyMap
  /\ events = <<>>
  /\ unknown = <<>>
  /\ err = NoErr
  /\ log = <<>>
  /\ IdleWeb
  /\ credentials = FALSE

SpecNormalize == InitNormalize /\ [][NormalizeTable]_vars

\* extract_person_row alone
InitSelect ==
  /\ pc = "select"
  /\ pdf = NoPdf
  /\ name \in Targets
  /\ year = 2025
  /\ csv = CsvPlain
  /\ dataframe_map \in BOOLEAN
  /\ raw_df = EmptyTable
  /\ df \in PeopleTables
  /\ date_cols = <<D41>>
  /\ person_row = NoRow
  /\ row_index = 0
  /\ code_map = EmptyMap
  /\ events = <<>>
  /\ unknown = <<>>
  /\ err = NoErr
  /\ log = <<>>
  /\ IdleWeb
  /\ credentials = FALSE

SpecSelect == InitSelect /\ [][ExtractPersonRow]_vars

\* to_events alone, over rows, loaded code maps and years
InitEvents ==
  /\ pc = "events"
  /\ pdf = NoPdf
  /\ name = Yamada
  /\ year \in Years
  /\ csv \in LoadableCsvs
  /\ dataframe_map = TRUE
  /\ raw_df = EmptyTable
  /\ df = EmptyTable
  /\ person_row \in PersonRows
  /\ date_cols = SubSeq(person_row.cols, 2, Len(person_row.cols) - 1)
  /\ row_index = 1
  /\ code_map = load_code_map(csv).map
  /\ events = <<>>
  /\ unknown = <<>>
  /\ err = NoErr
  /\ log = <<>>
  /\ IdleWeb
  /\ credentials = FALSE

SpecEvents == InitEvents /\ [][ToEvents]_vars

\* from the built events to the calendar: to_events on a wide row, the save
\* into the session, api_commit
InitCommit ==
  /\ pc = "events"
  /\ pdf = NoPdf
  /\ name = Yamada
  /\ year \in Years
  /\ csv = CsvPlain
  /\ dataframe_map = TRUE
  /\ raw_df = EmptyTable
  /\ df = EmptyTable
  /\ person_row \in WideRows
  /\ date_cols = SubSeq(person_row.cols, 2, Len(person_row.cols) - 1)
  /\ row_index = 1
  /\ code_map = load_code_map(csv).map
  /\ events = <<>>
  /\ unknown = <<>>
  /\ err = NoErr
  /\ log = <<>>
  /\ IdleWeb
  /\ credentials \in BOOLEAN

SpecCommit == InitCommit /\ [][ToEvents \/ SaveJob \/ ApiCommit]_vars

(***************************************************************************)
(*                    CLAIMS                                               *)
(***************************************************************************)

\* ---- C1 ----

\* what a call that ran and returned has yielded
C1_Yield(call) == IF call.ok THEN call.tables ELSE <<>>

C1_Tabula12(p) == C1_Yield(p.lattice) \o C1_Yield(p.stream)

C1_Tabula123(p) ==
  C1_Tabula12(p) \o (IF C1_Tabula12(p) = <<>> THEN C1_Yield(p.permissive) ELSE <<>>)

\* the tables of the tabula strategies that ran, in trial order
C1_Tabula(p) ==
  C1_Tabula123(p) \o (IF C1_Tabula123(p) = <<>> THEN C1_Yield(p.whole) ELSE <<>>)

\* every table the fallback backend found, as a frame, headers alone included
C1_FallbackAll(p) ==
  LET gs == SelectSeq(C1_Yield(p.plumber), LAMBDA g : g # <<>>)
  IN [k \in 1..Len(gs) |->
        IF Len(gs[k]) = 1 THEN Table(gs[k][1], <<>>) ELSE GridToFrame(gs[k])]

\* the fallback's tables with a data row and more than two columns
C1_FallbackKept(p) ==
  SelectSeq(C1_FallbackAll(p), LAMBDA t : t.rows # <<>> /\ Width(t) > 2)

C1_All(p) ==
  IF C1_Tabula(p) # <<>> THEN C1_Tabula(p) ELSE C1_FallbackAll(p)

C1_Kept(p) ==
  IF C1_Tabula(p) # <<>> THEN C1_Tabula(p) ELSE C1_FallbackKept(p)

\* t is, relabelled, the first of the widest tables of cands
C1_FirstWidest(cands, t) ==
  \E i \in 1..Len(cands) :
    /\ t = RelabelColumns(cands[i])
    /\ \A j \in 1..Len(cands) : Width(cands[j]) <= Width(cands[i])
    /\ \A j \in 1..(i - 1) : Width(cands[j]) < Width(cands[i])

C1_Returned == pc = "normalize"

C1_Over == pc \in {"normalize", "failed"}

\* C1 as claimed: once read_pdf_table is over, if the strategies that ran
\* yielded any candidate table at all (zero-row ones and every table of the
\* fallback backend included), it has returned the first of the widest.
C1_Original ==
  (C1_Over /\ C1_All(pdf) # <<>>) =>
    (C1_Returned /\ C1_FirstWidest(C1_All(pdf), raw_df))

\* C1 as amended: read_pdf_table returns the first of the widest among every
\* table of the tabula strategies that ran (zero-row ones included) and,
\* when those yielded none, among the fallback backend's tables that have a
\* data row and more than two columns; it fails only when none is left.
C1_FirstWidestCollected ==
  C1_Over =>
    IF C1_Kept(pdf) # <<>>
      THEN C1_Returned /\ C1_FirstWidest(C1_Kept(pdf), raw_df)
      ELSE pc = "failed" /\ err = Raise("ValueError", "no_table")

\* a tie between two widest candidates, the first of them without data rows,
\* was decided for the first
C1_Witness ==
  /\ C1_Returned
  /\ \E i, j \in 1..Len(C1_Kept(pdf)) :
       /\ i < j
       /\ Width(C1_Kept(pdf)[i]) = Width(C1_Kept(pdf)[j])
       /\ \A k \in 1..Len(C1_Kept(pdf)) :
            Width(C1_Kept(pdf)[k]) <= Width(C1_Kept(pdf)[i])
       /\ C1_Kept(pdf)[i].rows = <<>>
       /\ RelabelColumns(C1_Kept(pdf)[i]) # RelabelColumns(C1_Kept(pdf)[j])
       /\ raw_df = RelabelColumns(C1_Kept(pdf)[i])

\* ---- C2 ----

\* the four fatal conditions of the claim, by what raised the exception
C2_Condition(e) ==
  CASE e.reason = "no_table" -> "NoTableFound"
    [] e.reason = "no_date_header" -> "NoDateHeader"
    [] e.reason = "person_not_found" -> "PersonNotFound"
    [] e.reason \in {"code_map_missing", "code_map_empty", "code_map_columns"}
         -> "CodeMappingLoad"
    [] OTHER -> "other"

C2_Fatal(e) == C2_Condition(e) # "other"

\* C2: any two uploads that failed for different reasons among the four
\* fatal conditions reached api_upload's except clause with exceptions of
\* different kinds (classes).
C2_DistinctKinds ==
  \A i, j \in 1..Len(log) :
    (/\ C2_Fatal(log[i])
     /\ C2_Fatal(log[j])
     /\ C2_Condition(log[i]) # C2_Condition(log[j]))
      => log[i].type # log[j].type

\* ---- C3 ----

C3_NormalizeOver == pc \in {"select", "failed"}

\* no label is a month/day, and there is no first row holding one either
C3_NoDateColumn(t) ==
  /\ \A i \in 1..Len(t.cols) : ~_looks_like_md(t.cols[i])
  /\ t.rows # <<>> => \A i \in 1..Len(t.rows[1]) : ~_looks_like_md(t.rows[1][i])

\* C3: on a table in which no date column can be identified, zero-row tables
\* included, normalize_table fails with the no-date-header error and no other.
C3_NoDateHeaderOnly ==
  (C3_NormalizeOver /\ C3_NoDateColumn(raw_df)) =>
    (pc = "failed" /\ err.reason = "no_date_header")

\* ---- C4 ----

\* C4: a table normalize_table returns has exactly one column with the
\* canonical name label, and the date column list is not empty.
C4_OneNameColumn ==
  pc = "select" =>
    (/\ Cardinality({i \in 1..Len(df.cols) : df.cols[i] = NameLabel}) = 1
     /\ date_cols # <<>>)

\* ---- C5 ----

\* no label is a month/day and the first data row holds month/day strings
C5_HeaderInFirstRow(t) ==
  /\ \A i \in 1..Len(t.cols) : ~_looks_like_md(t.cols[i])
  /\ t.rows # <<>>
  /\ \E i \in 1..Len(t.rows[1]) : _looks_like_md(t.rows[1][i])

\* T': the first row as the labels read_pdf_table would hand over, the
\* other rows as the data
C5_Promoted(t) == RelabelColumns(Table(t.rows[1], Tail(t.rows)))

\* C5: on such a table normalize_table succeeds, with the date columns and
\* the data rows it gives on the table whose header is that first row.
C5_PromotionEquivalent ==
  (C3_NormalizeOver /\ C5_HeaderInFirstRow(raw_df)) =>
    (/\ pc = "select"
     /\ normalize_table(C5_Promoted(raw_df)).err = NoErr
     /\ date_cols = normalize_table(C5_Promoted(raw_df)).date_cols
     /\ df.rows = normalize_table(C5_Promoted(raw_df)).df.rows)

\* ---- C6 ----

\* the table whose data rows normalize_table filters
C6_Base ==
  IF \E i \in 1..Len(raw_df.cols) : _looks_like_md(raw_df.cols[i])
    THEN raw_df
    ELSE Table(raw_df.rows[1], Tail(raw_df.rows))

\* an empty cell or a single weekday glyph, blanks around it aside
C6_Decoration(cell) ==
  \/ \A i \in 1..Len(cell) : IsSpace(cell[i])
  \/ \E i \in 1..Len(cell) :
       /\ cell[i] \in {"GETSU", "KA", "SUI", "MOKU", "KIN", "DO", "NICHI"}
       /\ \A j \in 1..Len(cell) : j # i => IsSpace(cell[j])

\* every date column cell of the row is decoration
C6_DecorationRow(row) ==
  \A i \in 1..Len(row) : _looks_like_md(C6_Base.cols[i]) => C6_Decoration(row[i])

\* C6: the rows normalize_table keeps are exactly the rows that are not
\* decoration rows, in their order.
C6_DropsExactlyDecoration ==
  pc = "select" =>
    df.rows = SelectSeq(C6_Base.rows, LAMBDA r : ~C6_DecorationRow(r))

\* ---- C7 ----

\* a name with all its whitespace stripped, the full-width space included
C7_Bare(s) == SelectSeq(s, LAMBDA c : ~IsSpace(c))

C7_Names == [r \in 1..Len(df.rows) |-> C7_Bare(df.rows[r][NameColIndex(df.cols)])]

C7_Equal == {r \in 1..Len(df.rows) : C7_Names[r] = C7_Bare(name)}

C7_Holding == {r \in 1..Len(df.rows) : IsSubstring(C7_Bare(name), C7_Names[r])}

\* the table has its one name column
C7_Normalized == Cardinality({i \in 1..Len(df.cols) : df.cols[i] = NameLabel}) = 1

\* C7: with all whitespace stripped from the target and from the name cells,
\* extract_person_row returns the first row whose name equals the target,
\* else the first row whose name holds the target, else fails with the
\* person-not-found error.
C7_ExactThenSubstring ==
  (pc \in {"load", "failed"} /\ C7_Normalized) =>
    IF C7_Equal # {}
      THEN pc = "load" /\ row_index = MinOf(C7_Equal)
    ELSE IF C7_Holding # {}
      THEN pc = "load" /\ row_index = MinOf(C7_Holding)
    ELSE pc = "failed" /\ err.reason = "person_not_found"

\* ---- C8 ----

\* the date columns of the selected row
C8_Days == 1..Len(date_cols)

\* the trimmed cell of the k-th date column
C8_Code(k) ==
  Strip(person_row.rows[1][CHOOSE i \in 1..Len(person_row.cols) :
                             person_row.cols[i] = date_cols[k]])

C8_IsBlank(k) == C8_Code(k) \in {<<>>, <<"n", "a", "n">>, <<"N", "o", "n", "e">>}

\* a known code with a start and an end
C8_IsShift(k) ==
  /\ ~C8_IsBlank(k)
  /\ C8_Code(k) \in DOMAIN code_map
  /\ code_map[C8_Code(k)][1] # <<>>
  /\ code_map[C8_Code(k)][2] # <<>>

\* event e is the one of day k: its code, its title, the day its start is on
C8_EventOf(e, k) ==
  /\ e.code = C8_Code(k)
  /\ e.title = C8_Code(k)
  /\ e.date = FmtDate(parse_dt(year, date_cols[k], code_map[C8_Code(k)][1]))

\* C8: when to_events returns, there is exactly one event for each date
\* column whose trimmed code is not blank, is a key of the code map and has a
\* start and an end, and no other event; title and code are the trimmed code.
C8_OneEventPerShift ==
  pc = "done" =>
    (/\ Len(events) = Cardinality({k \in C8_Days : C8_IsShift(k)})
     /\ \A k \in C8_Days : C8_IsShift(k) =>
          Cardinality({i \in 1..Len(events) : C8_EventOf(events[i], k)}) = 1
     /\ \A i \in 1..Len(events) :
          \E k \in C8_Days : C8_IsShift(k) /\ C8_EventOf(events[i], k))

\* a returned result with one event, for a code that needed trimming, next
\* to a missing-value day and a day-off day
C8_Witness ==
  /\ pc = "done"
  /\ Len(events) = 1
  /\ \E k \in C8_Days : C8_Code(k) = <<"n", "a", "n">>
  /\ \E k \in C8_Days :
       /\ ~C8_IsBlank(k)
       /\ C8_Code(k) \in DOMAIN code_map
       /\ ~C8_IsShift(k)
  /\ \E k \in C8_Days : C8_IsShift(k) /\ C8_Code(k) # person_row.rows[1][k + 1]

\* ---- C9 ----

C9_UnknownCodes ==
  {C8_Code(k) : k \in {j \in C8_Days : ~C8_IsBlank(j) /\ C8_Code(j) \notin DOMAIN code_map}}

\* C9: when to_events returns, unknown lists exactly the distinct trimmed
\* codes that are not blank and not keys of the code map, each once, in
\* ascending order; and a row without a resolvable code never fails.
C9_UnknownSorted ==
  /\ pc = "done" =>
       (/\ {unknown[i] : i \in 1..Len(unknown)} = C9_UnknownCodes
        /\ \A i \in 1..(Len(unknown) - 1) : StrLess(unknown[i], unknown[i + 1]))
  /\ (pc \in {"done", "failed"} /\ \A k \in C8_Days : ~C8_IsShift(k)) => pc = "done"

\* two unknown codes, the greater one on two days and met first
C9_Witness ==
  /\ pc = "done"
  /\ Len(unknown) = 2
  /\ \E j, k \in C8_Days : j # k /\ C8_Code(j) = C8_Code(k) /\ C8_Code(j) = unknown[2]
  /\ C8_Code(1) = unknown[2]

\* ---- C10 ----

\* a valid HH:MM, with or without the +1 suffix
C10_ValidTime(hm) == parse_dt(2025, <<"1", "/", "1">>, hm) # BadDt

\* C10: for every event built from start and end times that are valid,
\* end_plus1 is true exactly when the end instant is on the day after the
\* event's date and false exactly when it is on the event's date, and
\* _tz_dt(date, end, end_plus1) is the end instant the builder computed.
C10_EndPlus1IsNextDay ==
  pc = "done" =>
    \A k \in C8_Days :
      (/\ C8_IsShift(k)
       /\ C10_ValidTime(code_map[C8_Code(k)][1])
       /\ C10_ValidTime(code_map[C8_Code(k)][2])) =>
        LET start_dt == parse_dt(year, date_cols[k], code_map[C8_Code(k)][1])
            end_dt == parse_dt(year, date_cols[k], code_map[C8_Code(k)][2])
        IN \A i \in 1..Len(events) :
             C8_EventOf(events[i], k) =>
               (/\ events[i].end_plus1 <=> SameDate(end_dt, NextDay(start_dt))
                /\ ~events[i].end_plus1 <=> SameDate(end_dt, start_dt)
                /\ _tz_dt(events[i].date, events[i].end, events[i].end_plus1)
                     = IsoJst(end_dt))

\* ---- C11 ----

\* the texts of number n: two digits, or one digit when n is below ten
C11_Forms(n) == {Pad(n, 2)} \cup (IF n < 10 THEN {<<DigitChar(n)>>} ELSE {})

\* the days of month m of year y (a year of this century)
C11_DaysOf(y, m) ==
  1..(CASE m \in {4, 6, 9, 11} -> 30
        [] m = 2 -> (IF y % 4 = 0 THEN 29 ELSE 28)
        [] OTHER -> 31)

\* the month/day labels that name a day of year y
C11_Dates ==
  [y \in Years |->
     UNION {UNION {{ms \o <<"/">> \o ds : ms \in C11_Forms(m), ds \in C11_Forms(d)} :
                     d \in C11_DaysOf(y, m)} :
              m \in 1..12}]

\* the HH:MM texts of a time of day
C11_Times ==
  UNION {{hs \o <<":">> \o ms : hs \in C11_Forms(h), ms \in C11_Forms(m)} :
           h \in 0..23, m \in 0..59}

\* a time of day, with or without the +1 suffix
C11_ValidTime(hm) ==
  \/ hm \in C11_Times
  \/ Len(hm) > 2 /\ SubSeq(hm, Len(hm) - 1, Len(hm)) = <<"+", "1">>
                 /\ SubSeq(hm, 1, Len(hm) - 2) \in C11_Times

\* day k is malformed: its label or one of the times of its code
C11_Malformed(k) ==
  \/ date_cols[k] \notin C11_Dates[year]
  \/ ~C11_ValidTime(code_map[C8_Code(k)][1])
  \/ ~C11_ValidTime(code_map[C8_Code(k)][2])

\* C11 as stated: whenever a date label is not a day of the year, or a
\* start or end of the code map is neither empty nor a valid time, to_events
\* raises and returns no events.
C11_Original ==
  (/\ pc \in {"done", "failed"}
   /\ \/ \E k \in C8_Days : date_cols[k] \notin C11_Dates[year]
      \/ \E c \in DOMAIN code_map : \E i \in 1..2 :
           code_map[c][i] # <<>> /\ ~C11_ValidTime(code_map[c][i]))
    => (pc = "failed" /\ events = <<>>)

\* C11: to_events raises the parsing error exactly when some date column
\* whose trimmed code is not blank, is a key of the code map and has a start
\* and an end carries a label that is not a day of the year or a start or end
\* that is not a valid time; then no event list and no unknown list is
\* returned.  A day skipped as blank, unknown or day off raises nothing, and
\* a returned result has an event for every other day.
C11_ParseErrorAborts ==
  pc \in {"done", "failed"} =>
    (/\ pc = "failed" <=> \E k \in C8_Days : C8_IsShift(k) /\ C11_Malformed(k)
     /\ pc = "failed" =>
          (/\ err = Raise("ValueError", "time_data_format")
           /\ events = <<>>
           /\ unknown = <<>>)
     /\ pc = "done" =>
          Len(events) = Cardinality({k \in C8_Days : C8_IsShift(k)}))

\* the request is aborted by a malformed time on one day while another day
\* holds a well-formed shift and a third an unknown code
C11_Witness ==
  /\ pc = "failed"
  /\ err.type = "ValueError"
  /\ \E k \in C8_Days :
       /\ C8_IsShift(k)
       /\ date_cols[k] \in C11_Dates[year]
       /\ ~C11_ValidTime(code_map[C8_Code(k)][1])
  /\ \E k \in C8_Days : C8_IsShift(k) /\ ~C11_Malformed(k)
  /\ \E k \in C8_Days : ~C8_IsBlank(k) /\ C8_Code(k) \notin DOMAIN code_map

\* ---- C12 ----

\* the date column event i was built from
C12_DayOf(i) == CHOOSE k \in C8_Days : C8_IsShift(k) /\ C8_EventOf(events[i], k)

\* the start instant of event i as the builder computed it
C12_Start(i) ==
  parse_dt(year, date_cols[C12_DayOf(i)], code_map[C8_Code(C12_DayOf(i))][1])

\* the minutes of an instant, counted in months of 31 days
C12_Minutes(dt) == (((dt.y * 12 + dt.m) * 31 + dt.d) * 24 + dt.hh) * 60 + dt.mi

\* events i and j start on the same date at the same time of day
C12_Tied(i, j) == events[i].date = events[j].date /\ events[i].start = events[j].start

\* C12: the events to_events returns are in chronological order of
\* (date, start time of day), and two events of equal date and start are in
\* the order of their date columns.
C12_SortedStable ==
  pc = "done" =>
    \A i, j \in 1..Len(events) :
      i < j =>
        (/\ C12_Minutes(C12_Start(i)) <= C12_Minutes(C12_Start(j))
         /\ C12_Tied(i, j) <=> C12_Minutes(C12_Start(i)) = C12_Minutes(C12_Start(j))
         /\ C12_Tied(i, j) => C12_DayOf(i) < C12_DayOf(j))

\* a returned result in which two events of different codes tie and an
\* event of a later date column was moved before one of an earlier
C12_Witness ==
  /\ pc = "done"
  /\ \E i, j \in 1..Len(events) :
       i < j /\ C12_Tied(i, j) /\ events[i].code # events[j].code
  /\ \E i, j \in 1..Len(events) : i < j /\ C12_DayOf(i) > C12_DayOf(j)

\* ---- C13 ----

\* the last api_commit was of the job of this upload and ran to its end
C13_Committed ==
  /\ pc = "saved"
  /\ commit_result.status = 303
  /\ commit_result.job_id = job_id

\* the entries the last commit inserted, given that it inserted n
C13_Inserted(n) == SubSeq(calendar, Len(calendar) - n + 1, Len(calendar))

\* C13: when the job of an upload that built n events has been committed,
\* the commit inserted exactly n entries, the entry of each built event in
\* built order, and recorded created = n.
C13_NoEventLost ==
  C13_Committed =>
    (/\ commit_result.created = Len(events)
     /\ jobs[job_id].created = Len(events)
     /\ Len(calendar) >= Len(events)
     /\ C13_Inserted(Len(events)) = [i \in 1..Len(events) |-> EventBody(events[i])])

====
